---- MODULE Spec2Model ----
(***************************************************************************)
(* Order orchestration and transactional outbox relay of                   *)
(* nexus-order-manager: the HTTP submission path (POST /api/v1/orders),    *)
(* TradingOrchestrator (SubmitOrder, ProcessOrder, StartWorkerPool,        *)
(* StartOutboxRelay, Stop), the PostgresRepository calls they make and the *)
(* Order state machine of the domain package; the consumer loop and Close  *)
(* of KafkaPool; DatabaseConfig.DSN and its itoa helper.                   *)
(*                                                                         *)
(* Every store, bus and exchange call is one atomic step; the goroutines   *)
(* (request handlers, workers, the relay) interleave between their calls.  *)
(***************************************************************************)
EXTENDS Integers, Sequences, FiniteSets, TLC

\* ------------------------------------------------------------- bounds
NumOrders == 3        \* distinct non-empty order ids a client may send
SystemOrders == 2     \* the same, where every component runs together (SpecSystem)
NumHandlers == 2      \* concurrent HTTP request goroutines
NumWorkers == 2       \* worker goroutines (main passes 3)
MaxTime == 2          \* wall-clock readings stamped by gorm on created_at
QueueCap == 1         \* capacity of orderChan (main makes 100)
BatchSize == 2        \* limit of a relay fetch (the relay passes 100)
MaxMessages == 3      \* messages the topic holds for the consumer group
MaxPort == 65535      \* largest database port a configuration file may name

IdPool == <<"O1", "O2", "O3", "O4", "O5", "O6">>
OrderIds == {IdPool[i] : i \in 1..NumOrders}
SystemIds == {IdPool[i] : i \in 1..SystemOrders} \cap OrderIds
Handlers == 1..NumHandlers
Workers == 1..NumWorkers
Times == 1..MaxTime

\* ------------------------------------------------------------- domain
StatusPending == "PENDING"
StatusExecuting == "EXECUTING"
StatusCompleted == "COMPLETED"
StatusFailed == "FAILED"
Statuses == {StatusPending, StatusExecuting, StatusCompleted, StatusFailed}

NoRow == [id |-> "", symbol |-> "", quantity |-> 0, status |-> "NONE"]
NoReq == [id |-> "", symbol |-> "", quantity |-> 0]

\* The request bodies a client sends: the id, symbol and quantity fields.
Symbols == {"", "BTCUSDT"}
Quantities == {-1, 0, 1}
RequestsOver(ids) == [id : ids \cup {""}, symbol : Symbols, quantity : Quantities]
Requests == RequestsOver(OrderIds)

NewOrder(id, symbol, quantity) ==
    [id |-> id, symbol |-> symbol, quantity |-> quantity, status |-> StatusPending]

\* IsValid without its quantity check
IsValidAnyQuantity(o) == o.id # "" /\ o.symbol # ""

IsValid(o) == o.id # "" /\ o.symbol # "" /\ o.quantity > 0

\* the transition table with an edge out of COMPLETED
TransitionsReopen(s) ==
    CASE s = StatusPending -> <<StatusExecuting, StatusFailed>>
      [] s = StatusExecuting -> <<StatusCompleted, StatusFailed>>
      [] s = StatusCompleted -> <<StatusFailed>>
      [] s = StatusFailed -> <<>>
      [] OTHER -> <<>>

\* transitions[o.Status], the slice the loop of CanTransitionTo ranges over
Transitions(s) ==
    CASE s = StatusPending -> <<StatusExecuting, StatusFailed>>
      [] s = StatusExecuting -> <<StatusCompleted, StatusFailed>>
      [] s = StatusCompleted -> <<>>
      [] s = StatusFailed -> <<>>
      [] OTHER -> <<>>

CanTransitionTo(o, newStatus) ==
    \E i \in 1..Len(Transitions(o.status)) : Transitions(o.status)[i] = newStatus

\* -------------------------------------------------------------- state
VARIABLES
    frontDoor,   \* which POST handler the build serves: "main" or "httpserver"
    stopPc,      \* Stop(): "run" (not called), "wait" (to.ctx cancelled, in wg.Wait), "returned"
    orders,      \* table orders: id -> row (NoRow when absent)
    outbox,      \* table outbox_events, in insertion (id) order
    hpc, hreq, hresp, hadded,   \* request goroutines: position, request, HTTP status, rows this call inserted
    orderChan,   \* the buffered channel of main
    wpc, wlocal, \* workers: position and the local *domain.Order
    trades,      \* per order id: ExecuteTrade calls made (saturating at 2) and the last result
    wret,        \* workers: what ProcessOrder has just returned, until the loop has logged it
    announced,   \* the order ids whose completion event the bus has accepted
    rpc, batch, idx,            \* relay: position, fetched events (their ids), loop index
    backlog,     \* the rows that were unprocessed when the relay last fetched
    cyclePub, pubFailed, markFailed,  \* this cycle: ids published (in order), failed publishes, failed marks
    now,         \* the wall clock reading
    kclose,      \* KafkaPool.Close(): "run" (not called), "wait" (kp.ctx cancelled, in wg.Wait), "producer", "reader", "returned"
    cpc, cmsg,   \* the consumer goroutine: position and the message it fetched
    nextOffset,  \* the offset the reader fetches next
    handled,     \* offsets for which the handler returned nil
    committed,   \* offsets CommitMessages has accepted
    producerClosed, readerClosed,  \* producer.Close() / reader.Close() have returned nil
    cfgPc, port, dsn   \* configuration: position, Database.Port, the port field of the DSN

\* An error value: its message and the statuses the message names
Err(msg, from, to) == [err |-> msg, from |-> from, to |-> to]

\* ProcessOrder returned nil
Nil == Err("nil", "", "")

\* ProcessOrder has not returned
NoRet == Err("none", "", "")

vars == <<frontDoor, stopPc, orders, outbox, hpc, hreq, hresp, hadded,
          orderChan, wpc, wlocal, wret, trades, announced, rpc, batch, idx, backlog, cyclePub, pubFailed, markFailed, now,
          kclose, cpc, cmsg, nextOffset, handled, committed, producerClosed, readerClosed, cfgPc, port, dsn>>

envVars == <<frontDoor, stopPc, now>>
kafkaVars == <<kclose, cpc, cmsg, nextOffset, handled, committed, producerClosed, readerClosed>>
configVars == <<cfgPc, port, dsn>>
storeVars == <<orders, outbox>>
handlerVars == <<hpc, hreq, hresp, hadded>>
workerVars == <<wpc, wlocal, wret, trades, announced>>
relayVars == <<rpc, batch, idx, backlog, cyclePub, pubFailed, markFailed>>

\* to.ctx.Done() is closed
cancelled == stopPc # "run"

\* kp.ctx.Done() is closed
kcancelled == kclose # "run"

\* A message of the topic: its offset and whether its value is the JSON of an order
Message(offset, payload) == [offset |-> offset, payload |-> payload]

\* The consumer holds no message
NoMsg == Message(0, "none")

Init ==
    /\ frontDoor \in {"main", "httpserver"}
    /\ stopPc = "run"
    /\ orders = [i \in OrderIds |-> NoRow]
    /\ outbox = <<>>
    /\ hpc = [h \in Handlers |-> "idle"]
    /\ hreq = [h \in Handlers |-> NoReq]
    /\ hresp = [h \in Handlers |-> 0]
    /\ hadded = [h \in Handlers |-> 0]
    /\ orderChan = <<>>
    /\ wpc = [w \in Workers |-> "idle"]
    /\ wlocal = [w \in Workers |-> NoRow]
    /\ wret = [w \in Workers |-> NoRet]
    /\ trades = [i \in OrderIds |-> [calls |-> 0, result |-> "none"]]
    /\ announced = {}
    /\ rpc = "wait"
    /\ batch = <<>>
    /\ idx = 0
    /\ backlog = {}
    /\ cyclePub = <<>>
    /\ pubFailed = {}
    /\ markFailed = {}
    /\ now = 1
    /\ kclose = "run"
    /\ cpc = "select"
    /\ cmsg = NoMsg
    /\ nextOffset = 1
    /\ handled = {}
    /\ committed = {}
    /\ producerClosed = FALSE
    /\ readerClosed = FALSE
    /\ cfgPc = "start"
    /\ port = 0
    /\ dsn = <<>>

\* ---------------------------------------------------- store (postgres.go)
\* CreateOrder: INSERT of the row; the primary key rejects a stored id.
StoreCreateOrder(o) == [orders EXCEPT ![o.id] = o]

\* GetOrder: SELECT ... WHERE id = ? (First)
StoreGetOrder(id) == orders[id]

\* UpdateOrder: gorm Save writes every column of the order it is given.
StoreUpdateOrder(o) == [orders EXCEPT ![o.id] = o]

\* CreateOutboxEvent: INSERT; the store assigns the next id, gorm stamped
\* created_at with its reading t of the wall clock.
StoreCreateOutboxEvent(e, t) ==
    Append(outbox, [id |-> Len(outbox) + 1, aggregate |-> e.aggregate,
                    aggregateId |-> e.aggregateId, eventType |-> e.eventType,
                    processed |-> e.processed, createdAt |-> t, processedAt |-> 0])

\* The rows WHERE processed = false
Unprocessed == {i \in 1..Len(outbox) : ~outbox[i].processed}

Min(a, b) == IF a < b THEN a ELSE b

\* The fetch without WHERE processed = false: the oldest rows, processed or not
GetOutboxEventsUnfiltered(limit) ==
    LET n == Min(limit, Len(outbox)) IN
    {s \in [1..n -> 1..Len(outbox)] :
        /\ \A i, j \in 1..n : i < j => s[i] # s[j] /\ outbox[s[i]].createdAt <= outbox[s[j]].createdAt
        /\ \A r \in 1..Len(outbox) : (\A i \in 1..n : s[i] # r) =>
               \A i \in 1..n : outbox[s[i]].createdAt <= outbox[r].createdAt}

\* The fetch without ORDER BY: the first rows in storage (id) order
GetUnprocessedStorageOrder(limit) ==
    LET n == Min(limit, Cardinality(Unprocessed)) IN
    {s \in [1..n -> Unprocessed] :
        /\ \A i, j \in 1..n : i < j => s[i] < s[j]
        /\ \A r \in Unprocessed : (\A i \in 1..n : s[i] # r) => \A i \in 1..n : s[i] < r}

\* The fetch with ORDER BY created_at DESC: the newest rows, newest first
GetUnprocessedNewestFirst(limit) ==
    LET n == Min(limit, Cardinality(Unprocessed)) IN
    {s \in [1..n -> Unprocessed] :
        /\ \A i, j \in 1..n : i < j => s[i] # s[j] /\ outbox[s[i]].createdAt >= outbox[s[j]].createdAt
        /\ \A r \in Unprocessed : (\A i \in 1..n : s[i] # r) =>
               \A i \in 1..n : outbox[s[i]].createdAt >= outbox[r].createdAt}

\* GetUnprocessedOutboxEvents: WHERE processed = false ORDER BY created_at ASC
\* LIMIT limit. The results the query can give: the store orders rows of equal
\* created_at as it likes.
GetUnprocessedOutboxEvents(limit) ==
    LET n == Min(limit, Cardinality(Unprocessed)) IN
    {s \in [1..n -> Unprocessed] :
        /\ \A i, j \in 1..n : i < j => s[i] # s[j] /\ outbox[s[i]].createdAt <= outbox[s[j]].createdAt
        /\ \A r \in Unprocessed : (\A i \in 1..n : s[i] # r) =>
               \A i \in 1..n : outbox[s[i]].createdAt <= outbox[r].createdAt}

\* The mark without its WHERE id = ?: every row is set processed
StoreMarkEveryRow(id) ==
    [i \in 1..Len(outbox) |-> [outbox[i] EXCEPT !.processed = TRUE, !.processedAt = 1]]

\* MarkOutboxEventProcessed: UPDATE ... WHERE id = ?; processed_at = now
\* (a non-null timestamp is modelled as 1, NULL as 0).
StoreMarkProcessed(id) ==
    [i \in 1..Len(outbox) |->
        IF outbox[i].id = id
        THEN [outbox[i] EXCEPT !.processed = TRUE, !.processedAt = 1]
        ELSE outbox[i]]

\* ------------------------------------- submission path (POST /orders)
\* The ids a request can carry. The program only compares ids for equality, so
\* clients are taken to name new orders O1, O2, ... in the order they first
\* send them: an id in use, the next unused id, or the empty id.
KnownIds ==
    {i \in OrderIds : orders[i] # NoRow \/ \E h \in Handlers : hreq[h].id = i}

ClientIds ==
    {""} \cup KnownIds \cup
    {IdPool[k] : k \in {Cardinality(KnownIds) + 1} \cap (1..NumOrders)}

\* The handler binds the request, builds the order with NewOrder and checks
\* IsValid: an invalid order is answered 400 before any store call.
HandlerReceive(h, req) ==
    /\ hpc[h] = "idle"
    /\ req.id \in ClientIds
    /\ hadded' = [hadded EXCEPT ![h] = 0]
    /\ IF IsValid(NewOrder(req.id, req.symbol, req.quantity))
       THEN /\ hpc' = [hpc EXCEPT ![h] = "create"]
            /\ hreq' = [hreq EXCEPT ![h] = req]
            /\ hresp' = [hresp EXCEPT ![h] = 0]
       ELSE /\ hpc' = [hpc EXCEPT ![h] = "done"]
            /\ hreq' = [hreq EXCEPT ![h] = NoReq]
            /\ hresp' = [hresp EXCEPT ![h] = 400]
    /\ UNCHANGED <<envVars, kafkaVars, configVars, storeVars, orderChan, workerVars, relayVars>>

\* The order the handler built and passes to SubmitOrder
HandlerOrder(h) == NewOrder(hreq[h].id, hreq[h].symbol, hreq[h].quantity)

\* The event SubmitOrder builds for the order
SubmittedEvent(o) ==
    [aggregate |-> "Order", aggregateId |-> o.id, eventType |-> "OrderSubmitted",
     processed |-> FALSE]

\* CreateOrder as an upsert: a stored id does not fail the INSERT
SubmitCreateOrderUpsert(h) ==
    /\ hpc[h] = "create"
    /\ orders' = StoreCreateOrder(HandlerOrder(h))
    /\ hadded' = [hadded EXCEPT ![h] = 1]
    /\ hpc' = [hpc EXCEPT ![h] = "outbox"]
    /\ UNCHANGED <<envVars, kafkaVars, configVars, outbox, hreq, hresp, orderChan, workerVars, relayVars>>

\* SubmitOrder, first store call: repo.CreateOrder(ctx, order) inserts the row.
SubmitCreateOrderOk(h) ==
    /\ hpc[h] = "create"
    /\ orders[hreq[h].id] = NoRow
    /\ orders' = StoreCreateOrder(HandlerOrder(h))
    /\ hadded' = [hadded EXCEPT ![h] = 1]
    /\ hpc' = [hpc EXCEPT ![h] = "outbox"]
    /\ UNCHANGED <<envVars, kafkaVars, configVars, outbox, hreq, hresp, orderChan, workerVars, relayVars>>

\* repo.CreateOrder fails (the id is stored already, or the store fails):
\* SubmitOrder returns the error and the handler answers 500.
SubmitCreateOrderErr(h) ==
    /\ hpc[h] = "create"
    /\ hpc' = [hpc EXCEPT ![h] = "done"]
    /\ hreq' = [hreq EXCEPT ![h] = NoReq]
    /\ hresp' = [hresp EXCEPT ![h] = 500]
    /\ UNCHANGED <<envVars, kafkaVars, configVars, storeVars, hadded, orderChan, workerVars, relayVars>>

\* SubmitOrder, second store call: repo.CreateOutboxEvent(ctx, event), and the
\* return of nil: main's handler goes on to the channel send, the HTTPServer
\* handler answers 202 at once.
SubmitCreateOutboxEventOk(h) ==
    /\ hpc[h] = "outbox"
    /\ outbox' = StoreCreateOutboxEvent(SubmittedEvent(HandlerOrder(h)), now)
    /\ hadded' = [hadded EXCEPT ![h] = 2]
    /\ IF frontDoor = "main"
       THEN /\ hpc' = [hpc EXCEPT ![h] = "enqueue"]
            /\ UNCHANGED <<hreq, hresp>>
       ELSE /\ hpc' = [hpc EXCEPT ![h] = "done"]
            /\ hreq' = [hreq EXCEPT ![h] = NoReq]
            /\ hresp' = [hresp EXCEPT ![h] = 202]
    /\ UNCHANGED <<envVars, kafkaVars, configVars, orders, orderChan, workerVars, relayVars>>

\* repo.CreateOutboxEvent fails: SubmitOrder returns the error, 500.
SubmitCreateOutboxEventErr(h) ==
    /\ hpc[h] = "outbox"
    /\ hpc' = [hpc EXCEPT ![h] = "done"]
    /\ hreq' = [hreq EXCEPT ![h] = NoReq]
    /\ hresp' = [hresp EXCEPT ![h] = 500]
    /\ UNCHANGED <<envVars, kafkaVars, configVars, storeVars, hadded, orderChan, workerVars, relayVars>>

\* the send on a channel without a bound: it never blocks
HandlerEnqueueUnbounded(h) ==
    /\ hpc[h] = "enqueue"
    /\ orderChan' = Append(orderChan, hreq[h].id)
    /\ hpc' = [hpc EXCEPT ![h] = "done"]
    /\ hreq' = [hreq EXCEPT ![h] = NoReq]
    /\ hresp' = [hresp EXCEPT ![h] = 202]
    /\ UNCHANGED <<envVars, kafkaVars, configVars, storeVars, hadded, workerVars, relayVars>>

\* main's handler: orderChan <- order blocks while the buffer is full.
HandlerEnqueue(h) ==
    /\ hpc[h] = "enqueue"
    /\ Len(orderChan) < QueueCap
    /\ orderChan' = Append(orderChan, hreq[h].id)
    /\ hpc' = [hpc EXCEPT ![h] = "done"]
    /\ hreq' = [hreq EXCEPT ![h] = NoReq]
    /\ hresp' = [hresp EXCEPT ![h] = 202]
    /\ UNCHANGED <<envVars, kafkaVars, configVars, storeVars, hadded, workerVars, relayVars>>

\* The response is written and the goroutine serves the next request.
HandlerFinish(h) ==
    /\ hpc[h] = "done"
    /\ hpc' = [hpc EXCEPT ![h] = "idle"]
    /\ hresp' = [hresp EXCEPT ![h] = 0]
    /\ hadded' = [hadded EXCEPT ![h] = 0]
    /\ UNCHANGED <<envVars, kafkaVars, configVars, storeVars, hreq, orderChan, workerVars, relayVars>>

\* One request goroutine, its clients sending ids among ids
Handler(h, ids) ==
    \/ \E req \in RequestsOver(ids) : HandlerReceive(h, req)
    \/ SubmitCreateOrderOk(h)
    \/ SubmitCreateOrderErr(h)
    \/ SubmitCreateOutboxEventOk(h)
    \/ SubmitCreateOutboxEventErr(h)
    \/ HandlerEnqueue(h)
    \/ HandlerFinish(h)

\* ------------------------------------------------ worker pool, ProcessOrder
\* the receive of a loop that does not wait for ProcessOrder to return: the
\* worker takes the next order while it holds one
WorkerReceiveWhileBusy(w) ==
    /\ wpc[w] # "exited"
    /\ orderChan # <<>>
    /\ wlocal' = [wlocal EXCEPT ![w] = [NoRow EXCEPT !.id = Head(orderChan)]]
    /\ orderChan' = Tail(orderChan)
    /\ wpc' = [wpc EXCEPT ![w] = "get"]
    /\ wret' = [wret EXCEPT ![w] = NoRet]
    /\ UNCHANGED <<envVars, kafkaVars, configVars, storeVars, handlerVars, trades, announced, relayVars>>

\* select: case order := <-orderChan
WorkerReceive(w) ==
    /\ wpc[w] = "idle"
    /\ orderChan # <<>>
    /\ wlocal' = [wlocal EXCEPT ![w] = [NoRow EXCEPT !.id = Head(orderChan)]]
    /\ orderChan' = Tail(orderChan)
    /\ wpc' = [wpc EXCEPT ![w] = "get"]
    /\ UNCHANGED <<envVars, kafkaVars, configVars, storeVars, handlerVars, wret, trades, announced, relayVars>>

\* StartWorkerPool reads the channel its caller passes: a sender other than
\* main's handler puts the id of any stored order on it, with any status.
ChannelSend ==
    /\ Len(orderChan) < QueueCap
    /\ \E x \in OrderIds :
           /\ orders[x] # NoRow
           /\ orderChan' = Append(orderChan, x)
    /\ UNCHANGED <<envVars, kafkaVars, configVars, storeVars, handlerVars, workerVars, relayVars>>

\* select: case <-to.ctx.Done(): return
WorkerExit(w) ==
    /\ wpc[w] = "idle"
    /\ cancelled
    /\ wpc' = [wpc EXCEPT ![w] = "exited"]
    /\ UNCHANGED <<envVars, kafkaVars, configVars, storeVars, handlerVars, orderChan, wlocal, wret, trades, announced, relayVars>>

\* ProcessOrder returns err to the worker loop: its local order is gone
WorkerReturn(w, err) ==
    /\ wpc' = [wpc EXCEPT ![w] = "returned"]
    /\ wret' = [wret EXCEPT ![w] = err]
    /\ wlocal' = [wlocal EXCEPT ![w] = NoRow]

\* The loop treating a returned error as fatal: the goroutine ends
WorkerLoopFatal(w) ==
    /\ wpc[w] = "returned"
    /\ wpc' = [wpc EXCEPT ![w] = IF wret[w] = Nil THEN "idle" ELSE "exited"]
    /\ wret' = [wret EXCEPT ![w] = NoRet]
    /\ UNCHANGED <<envVars, kafkaVars, configVars, storeVars, handlerVars, orderChan, wlocal, trades, announced, relayVars>>

\* The loop logs a returned error and goes back to its select
WorkerLoop(w) ==
    /\ wpc[w] = "returned"
    /\ wpc' = [wpc EXCEPT ![w] = "idle"]
    /\ wret' = [wret EXCEPT ![w] = NoRet]
    /\ UNCHANGED <<envVars, kafkaVars, configVars, storeVars, handlerVars, orderChan, wlocal, trades, announced, relayVars>>

\* ProcessOrder called with a context that Stop does not cancel: the read
\* succeeds after to.ctx is cancelled
ProcessGetOrderOkBackground(w) ==
    /\ wpc[w] = "get"
    /\ StoreGetOrder(wlocal[w].id) # NoRow
    /\ IF CanTransitionTo(StoreGetOrder(wlocal[w].id), StatusExecuting)
       THEN /\ wlocal' = [wlocal EXCEPT ![w] = [StoreGetOrder(wlocal[w].id)
                                                    EXCEPT !.status = StatusExecuting]]
            /\ wpc' = [wpc EXCEPT ![w] = "setExecuting"]
            /\ UNCHANGED wret
       ELSE WorkerReturn(w, Err("order cannot transition",
                                StoreGetOrder(wlocal[w].id).status, StatusExecuting))
    /\ UNCHANGED <<envVars, kafkaVars, configVars, storeVars, handlerVars, orderChan, trades, announced, relayVars>>

\* ProcessOrder building its order from the id alone instead of the row read:
\* the later Save writes zero values over the other columns
ProcessGetOrderOkIdOnly(w) ==
    /\ wpc[w] = "get"
    /\ ~cancelled
    /\ StoreGetOrder(wlocal[w].id) # NoRow
    /\ IF CanTransitionTo(StoreGetOrder(wlocal[w].id), StatusExecuting)
       THEN /\ wlocal' = [wlocal EXCEPT ![w] = [NoRow EXCEPT !.id = wlocal[w].id,
                                                           !.status = StatusExecuting]]
            /\ wpc' = [wpc EXCEPT ![w] = "setExecuting"]
            /\ UNCHANGED wret
       ELSE WorkerReturn(w, Err("order cannot transition",
                                StoreGetOrder(wlocal[w].id).status, StatusExecuting))
    /\ UNCHANGED <<envVars, kafkaVars, configVars, storeVars, handlerVars, orderChan, trades, announced, relayVars>>

\* ProcessOrder without the CanTransitionTo check: whatever the stored status,
\* the order goes on to EXECUTING
ProcessGetOrderOkUnchecked(w) ==
    /\ wpc[w] = "get"
    /\ ~cancelled
    /\ StoreGetOrder(wlocal[w].id) # NoRow
    /\ wlocal' = [wlocal EXCEPT ![w] = [StoreGetOrder(wlocal[w].id) EXCEPT !.status = StatusExecuting]]
    /\ wpc' = [wpc EXCEPT ![w] = "setExecuting"]
    /\ UNCHANGED <<envVars, kafkaVars, configVars, storeVars, handlerVars, orderChan, wret, trades, announced, relayVars>>

\* repo.GetOrder succeeds, then the CanTransitionTo(EXECUTING) check: the local
\* order is set to EXECUTING, or ProcessOrder returns the transition error.
ProcessGetOrderOk(w) ==
    /\ wpc[w] = "get"
    /\ ~cancelled
    /\ StoreGetOrder(wlocal[w].id) # NoRow
    /\ LET order == StoreGetOrder(wlocal[w].id) IN
       IF CanTransitionTo(order, StatusExecuting)
       THEN /\ wlocal' = [wlocal EXCEPT ![w] = [order EXCEPT !.status = StatusExecuting]]
            /\ wpc' = [wpc EXCEPT ![w] = "setExecuting"]
            /\ UNCHANGED wret
       ELSE WorkerReturn(w, Err("order cannot transition", order.status, StatusExecuting))
    /\ UNCHANGED <<envVars, kafkaVars, configVars, storeVars, handlerVars, orderChan, trades, announced, relayVars>>

\* A call made with to.ctx fails when the store, bus or exchange fails and
\* whenever to.ctx is cancelled. repo.GetOrder fails: ProcessOrder returns.
ProcessGetOrderErr(w) ==
    /\ wpc[w] = "get"
    /\ WorkerReturn(w, Err("failed to get order", "", ""))
    /\ UNCHANGED <<envVars, kafkaVars, configVars, storeVars, handlerVars, orderChan, trades, announced, relayVars>>

\* repo.UpdateOrder(order) with status EXECUTING
ProcessSetExecutingOk(w) ==
    /\ wpc[w] = "setExecuting"
    /\ ~cancelled
    /\ orders' = StoreUpdateOrder(wlocal[w])
    /\ wpc' = [wpc EXCEPT ![w] = "trade"]
    /\ UNCHANGED <<envVars, kafkaVars, configVars, outbox, handlerVars, orderChan, wlocal, wret, trades, announced, relayVars>>

\* the failed write of EXECUTING ignored: ProcessOrder goes on to the trade
ProcessSetExecutingErrIgnored(w) ==
    /\ wpc[w] = "setExecuting"
    /\ wpc' = [wpc EXCEPT ![w] = "trade"]
    /\ UNCHANGED <<envVars, kafkaVars, configVars, storeVars, handlerVars, orderChan, wlocal, wret, trades, announced, relayVars>>

\* repo.UpdateOrder fails: ProcessOrder returns before the trade
ProcessSetExecutingErr(w) ==
    /\ wpc[w] = "setExecuting"
    /\ WorkerReturn(w, Err("failed to update order status", "", ""))
    /\ UNCHANGED <<envVars, kafkaVars, configVars, storeVars, handlerVars, orderChan, trades, announced, relayVars>>

TradeCalled(id, result) ==
    [trades EXCEPT ![id] = [calls |-> Min(@.calls + 1, 2), result |-> result]]

\* exchange.ExecuteTrade returns nil: the local order becomes COMPLETED
ProcessTradeOk(w) ==
    /\ wpc[w] = "trade"
    /\ ~cancelled
    /\ trades' = TradeCalled(wlocal[w].id, "ok")
    /\ wlocal' = [wlocal EXCEPT ![w].status = StatusCompleted]
    /\ wpc' = [wpc EXCEPT ![w] = "setCompleted"]
    /\ UNCHANGED <<envVars, kafkaVars, configVars, storeVars, handlerVars, orderChan, wret, announced, relayVars>>

\* the trade error answered by calling ExecuteTrade again
ProcessTradeErrRetry(w) ==
    /\ wpc[w] = "trade"
    /\ trades' = TradeCalled(wlocal[w].id, "err")
    /\ UNCHANGED <<envVars, kafkaVars, configVars, storeVars, handlerVars, orderChan, wret, wpc, wlocal, announced, relayVars>>

\* to.ctx is cancelled while the request to the exchange is in flight (or before
\* it is sent): httpClient.Do returns the context's error, the local order
\* becomes FAILED
ProcessTradeCancelled(w) ==
    /\ wpc[w] = "trade"
    /\ cancelled
    /\ trades' = TradeCalled(wlocal[w].id, "cancelled")
    /\ wlocal' = [wlocal EXCEPT ![w].status = StatusFailed]
    /\ wpc' = [wpc EXCEPT ![w] = "setFailed"]
    /\ UNCHANGED <<envVars, kafkaVars, configVars, storeVars, handlerVars, orderChan, wret, announced, relayVars>>

\* the trade error ignored: ProcessOrder goes on to COMPLETED
ProcessTradeErrCompletes(w) ==
    /\ wpc[w] = "trade"
    /\ trades' = TradeCalled(wlocal[w].id, "err")
    /\ wlocal' = [wlocal EXCEPT ![w].status = StatusCompleted]
    /\ wpc' = [wpc EXCEPT ![w] = "setCompleted"]
    /\ UNCHANGED <<envVars, kafkaVars, configVars, storeVars, handlerVars, orderChan, wret, announced, relayVars>>

\* exchange.ExecuteTrade returns an error: the local order becomes FAILED
ProcessTradeErr(w) ==
    /\ wpc[w] = "trade"
    /\ trades' = TradeCalled(wlocal[w].id, "err")
    /\ wlocal' = [wlocal EXCEPT ![w].status = StatusFailed]
    /\ wpc' = [wpc EXCEPT ![w] = "setFailed"]
    /\ UNCHANGED <<envVars, kafkaVars, configVars, storeVars, handlerVars, orderChan, wret, announced, relayVars>>

\* the failed trade answered by storing the order as PENDING again
ProcessSetFailedOkResets(w) ==
    /\ wpc[w] = "setFailed"
    /\ ~cancelled
    /\ orders' = StoreUpdateOrder([wlocal[w] EXCEPT !.status = StatusPending])
    /\ WorkerReturn(w, Err("trade execution failed", "", ""))
    /\ UNCHANGED <<envVars, kafkaVars, configVars, outbox, handlerVars, orderChan, trades, announced, relayVars>>

\* repo.UpdateOrder(order) with status FAILED; ProcessOrder returns the trade error
ProcessSetFailedOk(w) ==
    /\ wpc[w] = "setFailed"
    /\ ~cancelled
    /\ orders' = StoreUpdateOrder(wlocal[w])
    /\ WorkerReturn(w, Err("trade execution failed", "", ""))
    /\ UNCHANGED <<envVars, kafkaVars, configVars, outbox, handlerVars, orderChan, trades, announced, relayVars>>

ProcessSetFailedErr(w) ==
    /\ wpc[w] = "setFailed"
    /\ WorkerReturn(w, Err("trade failed and update failed", "", ""))
    /\ UNCHANGED <<envVars, kafkaVars, configVars, storeVars, handlerVars, orderChan, trades, announced, relayVars>>

\* repo.UpdateOrder(order) with status COMPLETED
ProcessSetCompletedOk(w) ==
    /\ wpc[w] = "setCompleted"
    /\ ~cancelled
    /\ orders' = StoreUpdateOrder(wlocal[w])
    /\ wpc' = [wpc EXCEPT ![w] = "publish"]
    /\ UNCHANGED <<envVars, kafkaVars, configVars, outbox, handlerVars, orderChan, wlocal, wret, trades, announced, relayVars>>

ProcessSetCompletedErr(w) ==
    /\ wpc[w] = "setCompleted"
    /\ WorkerReturn(w, Err("failed to update order status", "", ""))
    /\ UNCHANGED <<envVars, kafkaVars, configVars, storeVars, handlerVars, orderChan, trades, announced, relayVars>>

\* kafkaPool.PublishOrderEvent(ctx, order) returns nil: the bus has the
\* completion event; ProcessOrder returns nil
ProcessPublishOk(w) ==
    /\ wpc[w] = "publish"
    /\ ~cancelled
    /\ announced' = announced \cup {wlocal[w].id}
    /\ WorkerReturn(w, Nil)
    /\ UNCHANGED <<envVars, kafkaVars, configVars, storeVars, handlerVars, orderChan, trades, relayVars>>

\* the failed publish returned to the caller instead of being logged
ProcessPublishErrReturned(w) ==
    /\ wpc[w] = "publish"
    /\ WorkerReturn(w, Err("failed to publish", "", ""))
    /\ UNCHANGED <<envVars, kafkaVars, configVars, storeVars, handlerVars, orderChan, trades, announced, relayVars>>

\* kafkaPool.PublishOrderEvent fails: the error is logged, ProcessOrder returns nil
ProcessPublishErr(w) ==
    /\ wpc[w] = "publish"
    /\ WorkerReturn(w, Nil)
    /\ UNCHANGED <<envVars, kafkaVars, configVars, storeVars, handlerVars, orderChan, trades, announced, relayVars>>

ProcessPublish(w) == ProcessPublishOk(w) \/ ProcessPublishErr(w)

\* ProcessOrder, from the receive to its return
WorkerStep(w) ==
    \/ WorkerReceive(w)
    \/ WorkerLoop(w)
    \/ ProcessGetOrderOk(w)
    \/ ProcessGetOrderErr(w)
    \/ ProcessSetExecutingOk(w)
    \/ ProcessSetExecutingErr(w)
    \/ ProcessTradeOk(w)
    \/ ProcessTradeErr(w)
    \/ ProcessSetFailedOk(w)
    \/ ProcessSetFailedErr(w)
    \/ ProcessSetCompletedOk(w)
    \/ ProcessSetCompletedErr(w)
    \/ ProcessPublish(w)

\* ProcessOrder when the store calls succeed and the exchange answers
WorkerOk(w) ==
    \/ WorkerReceive(w)
    \/ WorkerLoop(w)
    \/ ProcessGetOrderOk(w)
    \/ ProcessSetExecutingOk(w)
    \/ ProcessTradeOk(w)
    \/ ProcessTradeErr(w)
    \/ ProcessSetFailedOk(w)
    \/ ProcessSetCompletedOk(w)
    \/ ProcessPublishOk(w)

\* The calls of ProcessOrder that fail because to.ctx is cancelled
WorkerAborted(w) ==
    /\ cancelled
    /\ \/ ProcessGetOrderErr(w)
       \/ ProcessSetExecutingErr(w)
       \/ ProcessTradeCancelled(w)
       \/ ProcessSetFailedErr(w)
       \/ ProcessSetCompletedErr(w)
       \/ ProcessPublishErr(w)

\* One worker goroutine
Worker(w) ==
    \/ WorkerStep(w)
    \/ ProcessTradeCancelled(w)
    \/ WorkerExit(w)

\* ------------------------------------------------------- outbox relay
\* The loop moves to the next event, or back to the select after the last.
RelayAdvance ==
    IF idx < Len(batch)
    THEN idx' = idx + 1 /\ rpc' = "publish"
    ELSE idx' = 0 /\ rpc' = "wait"

\* The rows inserted after the last fetch: the relay has neither seen nor marked them
InsertedSinceFetch ==
    {i \in 1..Len(outbox) : ~outbox[i].processed /\ i \notin backlog}

\* case <-ticker.C: repo.GetUnprocessedOutboxEvents(to.ctx, 100) succeeds
RelayFetchOk ==
    /\ rpc = "wait"
    /\ ~cancelled
    /\ \E events \in GetUnprocessedOutboxEvents(BatchSize) :
          /\ batch' = events
          /\ IF Len(events) = 0
             THEN idx' = 0 /\ rpc' = "wait"
             ELSE idx' = 1 /\ rpc' = "publish"
    /\ backlog' = Unprocessed
    /\ cyclePub' = <<>>
    /\ pubFailed' = {}
    /\ markFailed' = {}
    /\ UNCHANGED <<envVars, kafkaVars, configVars, storeVars, handlerVars, orderChan, workerVars>>

\* the fetch fails: logged, continue
RelayFetchErr ==
    /\ rpc = "wait"
    /\ UNCHANGED vars

\* kafkaPool.PublishGenericEvent(to.ctx, "nexus.events", event.AggregateID, event) returns nil
RelayPublishOk ==
    /\ rpc = "publish"
    /\ ~cancelled
    /\ cyclePub' = Append(cyclePub, batch[idx])
    /\ rpc' = "mark"
    /\ UNCHANGED <<envVars, kafkaVars, configVars, storeVars, handlerVars, orderChan, workerVars,
                   batch, idx, backlog, pubFailed, markFailed>>

\* the failed publish without its continue: the loop goes on to the mark
RelayPublishErrFallsThrough ==
    /\ rpc = "publish"
    /\ pubFailed' = pubFailed \cup {batch[idx]}
    /\ rpc' = "mark"
    /\ UNCHANGED <<envVars, kafkaVars, configVars, storeVars, handlerVars, orderChan, workerVars,
                   batch, idx, backlog, cyclePub, markFailed>>

\* the failed publish with break for continue: the cycle ends
RelayPublishErrBreak ==
    /\ rpc = "publish"
    /\ pubFailed' = pubFailed \cup {batch[idx]}
    /\ idx' = 0
    /\ rpc' = "wait"
    /\ UNCHANGED <<envVars, kafkaVars, configVars, storeVars, handlerVars, orderChan, workerVars,
                   batch, backlog, cyclePub, markFailed>>

\* the publish fails: logged, continue with the next event
RelayPublishErr ==
    /\ rpc = "publish"
    /\ pubFailed' = pubFailed \cup {batch[idx]}
    /\ RelayAdvance
    /\ UNCHANGED <<envVars, kafkaVars, configVars, storeVars, handlerVars, orderChan, workerVars,
                   batch, backlog, cyclePub, markFailed>>

\* the mark whose UPDATE matches no row: nil is returned, nothing is written
RelayMarkOkNoWrite ==
    /\ rpc = "mark"
    /\ ~cancelled
    /\ RelayAdvance
    /\ UNCHANGED <<envVars, kafkaVars, configVars, storeVars, handlerVars, orderChan, workerVars,
                   batch, backlog, cyclePub, pubFailed, markFailed>>

\* repo.MarkOutboxEventProcessed(to.ctx, event.ID) succeeds
RelayMarkOk ==
    /\ rpc = "mark"
    /\ ~cancelled
    /\ outbox' = StoreMarkProcessed(batch[idx])
    /\ RelayAdvance
    /\ UNCHANGED <<envVars, kafkaVars, configVars, orders, handlerVars, orderChan, workerVars,
                   batch, backlog, cyclePub, pubFailed, markFailed>>

\* the mark that reports an error after its UPDATE was applied
RelayMarkErrApplied ==
    /\ rpc = "mark"
    /\ markFailed' = markFailed \cup {batch[idx]}
    /\ outbox' = StoreMarkProcessed(batch[idx])
    /\ RelayAdvance
    /\ UNCHANGED <<envVars, kafkaVars, configVars, orders, handlerVars, orderChan, workerVars,
                   batch, backlog, cyclePub, pubFailed>>

\* the mark fails: logged, the loop goes on
RelayMarkErr ==
    /\ rpc = "mark"
    /\ markFailed' = markFailed \cup {batch[idx]}
    /\ RelayAdvance
    /\ UNCHANGED <<envVars, kafkaVars, configVars, storeVars, handlerVars, orderChan, workerVars,
                   batch, backlog, cyclePub, pubFailed>>

\* case <-to.ctx.Done(): return
RelayExit ==
    /\ rpc = "wait"
    /\ cancelled
    /\ rpc' = "exited"
    /\ UNCHANGED <<envVars, kafkaVars, configVars, storeVars, handlerVars, orderChan, workerVars,
                   batch, idx, backlog, cyclePub, pubFailed, markFailed>>

\* The relay goroutine until cancellation
RelayCycle ==
    \/ RelayFetchOk
    \/ RelayFetchErr
    \/ RelayPublishOk
    \/ RelayPublishErr
    \/ RelayMarkOk
    \/ RelayMarkErr

Relay == RelayCycle \/ RelayExit

\* The relay when the store and the bus answer
RelayOk == RelayFetchOk \/ RelayPublishOk \/ RelayMarkOk

\* The calls of the relay that fail because to.ctx is cancelled
RelayAborted ==
    /\ cancelled
    /\ (RelayFetchErr \/ RelayPublishErr \/ RelayMarkErr)

\* ------------------------------------------------------------- Stop()
\* to.cancel()
StopCancel ==
    /\ stopPc = "run"
    /\ stopPc' = "wait"
    /\ UNCHANGED <<kafkaVars, configVars, frontDoor, now, storeVars, handlerVars, orderChan, workerVars, relayVars>>

\* Stop waiting for the relay only
StopReturnBeforeWorkers ==
    /\ stopPc = "wait"
    /\ rpc = "exited"
    /\ stopPc' = "returned"
    /\ UNCHANGED <<kafkaVars, configVars, frontDoor, now, storeVars, handlerVars, orderChan, workerVars, relayVars>>

\* to.wg.Wait() returns when every worker and the relay have called Done
StopReturn ==
    /\ stopPc = "wait"
    /\ rpc = "exited"
    /\ \A w \in Workers : wpc[w] = "exited"
    /\ stopPc' = "returned"
    /\ UNCHANGED <<kafkaVars, configVars, frontDoor, now, storeVars, handlerVars, orderChan, workerVars, relayVars>>

Stop == StopCancel \/ StopReturn


\* --------------------------------------------------------- wall clock
\* time.Now() reads the wall clock, which advances and can be set back; gorm
\* reads it for created_at before the INSERT runs.
ClockSet ==
    /\ \E t \in Times \ {now} : now' = t
    /\ UNCHANGED <<kafkaVars, configVars, frontDoor, stopPc, storeVars, handlerVars, orderChan, workerVars, relayVars>>

\* ------------------------------------- KafkaPool consumer (kafka_pool.go)
orchestratorVars == <<envVars, storeVars, handlerVars, orderChan, workerVars, relayVars>>

\* What a message value can be: the JSON of an order, or bytes json.Unmarshal rejects
Payloads == {"order", "garbage"}

\* case <-kp.ctx.Done(): return (the deferred kp.wg.Done() runs)
ConsumeSelectDone ==
    /\ cpc = "select"
    /\ kcancelled
    /\ cpc' = "exited"
    /\ UNCHANGED <<kclose, cmsg, nextOffset, handled, committed, producerClosed, readerClosed>>
    /\ UNCHANGED <<orchestratorVars, configVars>>

\* default: taken when kp.ctx.Done() is not ready
ConsumeSelectDefault ==
    /\ cpc = "select"
    /\ ~kcancelled
    /\ cpc' = "fetch"
    /\ UNCHANGED <<kclose, cmsg, nextOffset, handled, committed, producerClosed, readerClosed>>
    /\ UNCHANGED <<orchestratorVars, configVars>>

\* kp.reader.FetchMessage(kp.ctx) returns the next message of the topic
ConsumeFetchOk ==
    /\ cpc = "fetch"
    /\ ~kcancelled
    /\ nextOffset <= MaxMessages
    /\ \E p \in Payloads : cmsg' = Message(nextOffset, p)
    /\ nextOffset' = nextOffset + 1
    /\ cpc' = "decode"
    /\ UNCHANGED <<kclose, handled, committed, producerClosed, readerClosed>>
    /\ UNCHANGED <<orchestratorVars, configVars>>

\* FetchMessage returns an error while kp.ctx is live: logged, continue
ConsumeFetchErr ==
    /\ cpc = "fetch"
    /\ ~kcancelled
    /\ cpc' = "select"
    /\ UNCHANGED <<kclose, cmsg, nextOffset, handled, committed, producerClosed, readerClosed>>
    /\ UNCHANGED <<orchestratorVars, configVars>>

\* FetchMessage returns an error and kp.ctx.Err() != nil: return
ConsumeFetchCancelled ==
    /\ cpc = "fetch"
    /\ kcancelled
    /\ cpc' = "exited"
    /\ UNCHANGED <<kclose, cmsg, nextOffset, handled, committed, producerClosed, readerClosed>>
    /\ UNCHANGED <<orchestratorVars, configVars>>

\* json.Unmarshal(msg.Value, &order) returns nil
ConsumeDecodeOk ==
    /\ cpc = "decode"
    /\ cmsg.payload = "order"
    /\ cpc' = "handle"
    /\ UNCHANGED <<kclose, cmsg, nextOffset, handled, committed, producerClosed, readerClosed>>
    /\ UNCHANGED <<orchestratorVars, configVars>>

\* json.Unmarshal fails: logged, continue
ConsumeDecodeErr ==
    /\ cpc = "decode"
    /\ cmsg.payload = "garbage"
    /\ cpc' = "select"
    /\ cmsg' = NoMsg
    /\ UNCHANGED <<kclose, nextOffset, handled, committed, producerClosed, readerClosed>>
    /\ UNCHANGED <<orchestratorVars, configVars>>

\* handler(&order) returns nil
ConsumeHandleOk ==
    /\ cpc = "handle"
    /\ handled' = handled \cup {cmsg.offset}
    /\ cpc' = "commit"
    /\ UNCHANGED <<kclose, cmsg, nextOffset, committed, producerClosed, readerClosed>>
    /\ UNCHANGED <<orchestratorVars, configVars>>

\* handler(&order) returns an error and the loop goes on to CommitMessages
ConsumeHandleErrCommits ==
    /\ cpc = "handle"
    /\ cpc' = "commit"
    /\ UNCHANGED <<kclose, cmsg, nextOffset, handled, committed, producerClosed, readerClosed>>
    /\ UNCHANGED <<orchestratorVars, configVars>>

\* handler(&order) returns an error: logged, continue
ConsumeHandleErr ==
    /\ cpc = "handle"
    /\ cpc' = "select"
    /\ cmsg' = NoMsg
    /\ UNCHANGED <<kclose, nextOffset, handled, committed, producerClosed, readerClosed>>
    /\ UNCHANGED <<orchestratorVars, configVars>>

\* kp.reader.CommitMessages(kp.ctx, msg) returns nil
ConsumeCommitOk ==
    /\ cpc = "commit"
    /\ ~kcancelled
    /\ committed' = committed \cup {cmsg.offset}
    /\ cpc' = "select"
    /\ cmsg' = NoMsg
    /\ UNCHANGED <<kclose, nextOffset, handled, producerClosed, readerClosed>>
    /\ UNCHANGED <<orchestratorVars, configVars>>

\* CommitMessages returns an error: logged, next iteration
ConsumeCommitErr ==
    /\ cpc = "commit"
    /\ cpc' = "select"
    /\ cmsg' = NoMsg
    /\ UNCHANGED <<kclose, nextOffset, handled, committed, producerClosed, readerClosed>>
    /\ UNCHANGED <<orchestratorVars, configVars>>

Consume ==
    \/ ConsumeSelectDone \/ ConsumeSelectDefault
    \/ ConsumeFetchOk \/ ConsumeFetchErr \/ ConsumeFetchCancelled
    \/ ConsumeDecodeOk \/ ConsumeDecodeErr
    \/ ConsumeHandleOk \/ ConsumeHandleErr
    \/ ConsumeCommitOk \/ ConsumeCommitErr

\* Close: kp.cancel()
CloseCancel ==
    /\ kclose = "run"
    /\ kclose' = "wait"
    /\ UNCHANGED <<cpc, cmsg, nextOffset, handled, committed, producerClosed, readerClosed>>
    /\ UNCHANGED <<orchestratorVars, configVars>>

\* Close: kp.wg.Wait() returns when the consumer goroutine has called Done
CloseWait ==
    /\ kclose = "wait"
    /\ cpc = "exited"
    /\ kclose' = "producer"
    /\ UNCHANGED <<cpc, cmsg, nextOffset, handled, committed, producerClosed, readerClosed>>
    /\ UNCHANGED <<orchestratorVars, configVars>>

\* Close: kp.producer.Close() returns nil
CloseProducerOk ==
    /\ kclose = "producer"
    /\ producerClosed' = TRUE
    /\ kclose' = "reader"
    /\ UNCHANGED <<cpc, cmsg, nextOffset, handled, committed, readerClosed>>
    /\ UNCHANGED <<orchestratorVars, configVars>>

\* Close: kp.producer.Close() fails; Close returns the error, the reader stays open
CloseProducerErr ==
    /\ kclose = "producer"
    /\ kclose' = "returned"
    /\ UNCHANGED <<cpc, cmsg, nextOffset, handled, committed, producerClosed, readerClosed>>
    /\ UNCHANGED <<orchestratorVars, configVars>>

\* Close: kp.reader.Close() returns nil
CloseReaderOk ==
    /\ kclose = "reader"
    /\ readerClosed' = TRUE
    /\ kclose' = "returned"
    /\ UNCHANGED <<cpc, cmsg, nextOffset, handled, committed, producerClosed>>
    /\ UNCHANGED <<orchestratorVars, configVars>>

\* Close: kp.reader.Close() fails; Close returns the error
CloseReaderErr ==
    /\ kclose = "reader"
    /\ kclose' = "returned"
    /\ UNCHANGED <<cpc, cmsg, nextOffset, handled, committed, producerClosed, readerClosed>>
    /\ UNCHANGED <<orchestratorVars, configVars>>

Close ==
    \/ CloseCancel \/ CloseWait
    \/ CloseProducerOk \/ CloseProducerErr
    \/ CloseReaderOk \/ CloseReaderErr

\* --------------------------------------- configuration (package config)
Ports == 0..MaxPort

\* The characters '0'..'9'
DigitChars == <<"0", "1", "2", "3", "4", "5", "6", "7", "8", "9">>

\* string(rune('0' + d)) for a digit d
DigitChar(d) == DigitChars[d + 1]

\* itoa: the thousands, hundreds, tens and units digits of i, in that order
itoa(i) ==
    <<DigitChar((i \div 1000) % 10), DigitChar((i \div 100) % 10),
      DigitChar((i \div 10) % 10), DigitChar(i % 10)>>

\* The digit a character stands for
DigitValue(c) == CHOOSE d \in 0..9 : DigitChars[d + 1] = c

\* The number a string of digits denotes, as the driver reads the port field
RECURSIVE Atoi(_)
Atoi(s) ==
    IF s = <<>> THEN 0
    ELSE 10 * Atoi(SubSeq(s, 1, Len(s) - 1)) + DigitValue(s[Len(s)])

\* Load: yaml.Unmarshal fills Database.Port from the configuration file
Load ==
    /\ cfgPc = "start"
    /\ \E p \in Ports : port' = p
    /\ cfgPc' = "loaded"
    /\ UNCHANGED dsn
    /\ UNCHANGED <<orchestratorVars, kafkaVars>>

\* DSN: "host=... port=" + itoa(d.Port) + " user=..." (the port field)
DSN ==
    /\ cfgPc = "loaded"
    /\ dsn' = itoa(port)
    /\ cfgPc' = "opened"
    /\ UNCHANGED port
    /\ UNCHANGED <<orchestratorVars, kafkaVars>>

\* ------------------------------------------------------ specifications
\* The submission path alone: concurrent requests against the store
NextSubmit == \E h \in Handlers : Handler(h, OrderIds)

SpecSubmit == Init /\ [][NextSubmit]_vars

\* One client connection, the running relay and the wall clock
NextRelay == Handler(1, OrderIds) \/ RelayCycle \/ ClockSet

SpecRelay == Init /\ [][NextRelay]_vars

\* The rows the outbox can hold: one per order id
RowIds == 1..NumOrders

\* The oldest rows, as many as one batch holds: their publishes may fail for ever
StuckRows == 1..BatchSize

\* The running relay while the ticker keeps ticking, the store answers and the
\* bus accepts every row but the stuck ones: a fetch, the publish of any other
\* row and the mark of any row succeed if they are attempted again and again,
\* and every call the relay makes returns.
SpecRelayFair ==
    /\ SpecRelay
    /\ WF_vars(RelayCycle)
    /\ WF_vars(RelayFetchOk)
    /\ \A r \in RowIds \ StuckRows : SF_vars(RelayPublishOk /\ batch[idx] = r)
    /\ \A r \in RowIds : SF_vars(RelayMarkOk /\ batch[idx] = r)

\* One client connection, the worker pool and Stop; the relay's ticker does
\* not fire before Stop
NextExec ==
    \/ Handler(1, OrderIds)
    \/ \E w \in Workers : Worker(w)
    \/ RelayExit
    \/ Stop

SpecExec == Init /\ [][NextExec]_vars

\* Every component together: one client connection, the worker pool, the
\* relay and Stop (rows get equal created_at: the clock stands still)
NextSystem ==
    \/ Handler(1, SystemIds)
    \/ \E w \in Workers : Worker(w)
    \/ Relay
    \/ Stop

SpecSystem == Init /\ [][NextSystem]_vars

\* Every component with fair scheduling: every call in flight returns, a
\* goroutine that can run does, and wg.Wait returns once it can
SpecSystemFair ==
    /\ SpecSystem
    /\ \A w \in Workers : WF_vars(Worker(w))
    /\ WF_vars(Relay)
    /\ WF_vars(StopReturn)

\* The running orchestrator (no Stop) when the store calls succeed: one client
\* connection and the worker pool, the worker's publish failing or not
NextRun ==
    \/ Handler(1, OrderIds)
    \/ \E w \in Workers : WorkerOk(w) \/ ProcessPublishErr(w)

SpecRunFair ==
    /\ Init /\ [][NextRun]_vars
    /\ WF_vars(HandlerEnqueue(1))
    /\ \A w \in Workers : WF_vars(WorkerOk(w) \/ ProcessPublishErr(w))

\* The running orchestrator with the relay: the store calls succeed, the bus
\* accepts what the relay publishes, the worker's publish may fail
NextDeliver ==
    \/ Handler(1, SystemIds)
    \/ \E w \in Workers : WorkerOk(w) \/ ProcessPublishErr(w)
    \/ RelayOk

SpecDeliverFair ==
    /\ Init /\ [][NextDeliver]_vars
    /\ WF_vars(HandlerEnqueue(1))
    /\ \A w \in Workers : WF_vars(WorkerOk(w) \/ ProcessPublishErr(w))
    /\ WF_vars(RelayOk)

\* Shutdown with healthy collaborators: a call fails only because to.ctx is
\* cancelled, a trade only by the exchange's own answer or by cancellation
NextStop ==
    \/ Handler(1, SystemIds)
    \/ \E w \in Workers : WorkerOk(w) \/ WorkerAborted(w) \/ WorkerExit(w)
    \/ RelayOk \/ RelayAborted \/ RelayExit
    \/ Stop

SpecStop == Init /\ [][NextStop]_vars

\* ProcessOrder on an order of any status: one client connection submitting
\* one order, a sender that queues the stored order again, and the worker
\* pool, any call failing or not
NextProcess ==
    \/ Handler(1, {IdPool[1]})
    \/ ChannelSend
    \/ \E w \in Workers : WorkerStep(w)

SpecProcess == Init /\ [][NextProcess]_vars

\* The running orchestrator (no Stop) with a store whose writes fail and
\* recover: UpdateOrder may fail in ProcessOrder, every other call succeeds, a
\* goroutine that can run does, and a write that is made again and again
\* succeeds in the end
NextRecover ==
    \/ Handler(1, SystemIds)
    \/ \E w \in Workers :
           \/ WorkerOk(w)
           \/ ProcessSetExecutingErr(w)
           \/ ProcessSetFailedErr(w)
           \/ ProcessSetCompletedErr(w)

SpecRecoverFair ==
    /\ Init /\ [][NextRecover]_vars
    /\ WF_vars(HandlerEnqueue(1))
    /\ \A w \in Workers :
           /\ WF_vars(WorkerOk(w))
           /\ SF_vars(ProcessSetExecutingOk(w))
           /\ SF_vars(ProcessSetFailedOk(w))
           /\ SF_vars(ProcessSetCompletedOk(w))

\* Shutdown of every component while one order is in the system, any call
\* failing or not, with fair scheduling: every call in flight returns, a
\* goroutine that can run does, and wg.Wait returns once it can
NextShutdown ==
    \/ Handler(1, {IdPool[1]})
    \/ \E w \in Workers : Worker(w)
    \/ Relay
    \/ Stop

SpecShutdownFair ==
    /\ Init /\ [][NextShutdown]_vars
    /\ \A w \in Workers : WF_vars(Worker(w))
    /\ WF_vars(Relay)
    /\ WF_vars(StopReturn)

\* The Kafka consumer goroutine and Close
NextConsume == Consume \/ Close

SpecConsume == Init /\ [][NextConsume]_vars

\* Start-up: the configuration is loaded and the DSN is built from it
NextConfig == Load \/ DSN

SpecConfig == Init /\ [][NextConfig]_vars


\* ------------------------------------------------------------- claims
HasOrder(x) == orders[x] # NoRow

\* The outbox rows announcing the submission of order x
SubmittedRows(x) ==
    {i \in 1..Len(outbox) :
        outbox[i].aggregateId = x /\ outbox[i].eventType = "OrderSubmitted"}

\* C1: in every reachable state an Order row with id x exists if and only if
\* an OutboxEvent row of type OrderSubmitted with aggregateId x exists.
C1_OrderIffOutboxEvent ==
    \A x \in OrderIds : HasOrder(x) <=> SubmittedRows(x) # {}

\* C2: whenever SubmitOrder has returned an error (the handler answers 500),
\* the call has added no Order row and no OutboxEvent row to the store.
C2_FailedSubmitAddsNothing ==
    \A h \in Handlers : hresp[h] = 500 => hadded[h] = 0

\* SubmitOrder returns nil to handler h in this step
SubmitReturnsNil(h) ==
    /\ hpc[h] = "outbox"
    /\ hpc'[h] \in {"enqueue", "done"}
    /\ hresp'[h] # 500

\* C3: when SubmitOrder returns success for order x, the store holds one Order
\* row with id x and status PENDING and exactly one OutboxEvent row for x, with
\* aggregate Order, eventType OrderSubmitted and processed = false.
C3_SubmitSuccess ==
    [][\A h \in Handlers : SubmitReturnsNil(h) =>
          LET x == hreq[h].id
              rows == {i \in 1..Len(outbox') : outbox'[i].aggregateId = x}
          IN /\ orders'[x].id = x
             /\ orders'[x].status = StatusPending
             /\ Cardinality(rows) = 1
             /\ \A i \in rows : /\ outbox'[i].aggregate = "Order"
                                /\ outbox'[i].eventType = "OrderSubmitted"
                                /\ outbox'[i].processed = FALSE]_vars

\* a handler has had SubmitOrder return nil and holds the accepted order
C3_Witness ==
    \E h \in Handlers :
        /\ hpc[h] = "enqueue"
        /\ orders[hreq[h].id].status = StatusPending
        /\ SubmittedRows(hreq[h].id) # {}

Malformed(req) == req.id = "" \/ req.symbol = "" \/ req.quantity <= 0

\* C4: a request with an empty id, an empty symbol or a quantity <= 0 is
\* answered with a rejection (400) and creates no Order row and no OutboxEvent
\* row; no stored Order row is malformed.
C4_MalformedRejected ==
    [][/\ \A h \in Handlers : \A req \in Requests :
             (Malformed(req) /\ HandlerReceive(h, req)) =>
                 /\ hresp'[h] = 400
                 /\ hpc'[h] = "done"
                 /\ orders' = orders
                 /\ outbox' = outbox
       /\ \A h \in Handlers : (hresp[h] = 400 /\ hpc'[h] # hpc[h]) => hpc'[h] = "idle"
       /\ \A x \in OrderIds : orders'[x] # NoRow => ~Malformed(orders'[x])]_vars

\* a request has been rejected while another order is stored
C4_Witness ==
    /\ \E h \in Handlers : hresp[h] = 400 /\ hpc[h] = "done"
    /\ \E x \in OrderIds : HasOrder(x)

AllowedEdges ==
    {<<StatusPending, StatusExecuting>>, <<StatusPending, StatusFailed>>,
     <<StatusExecuting, StatusCompleted>>, <<StatusExecuting, StatusFailed>>}

Terminal(st) == st \in {StatusCompleted, StatusFailed}

\* C6: once the stored status of an order is COMPLETED or FAILED it never
\* changes again, whatever the handlers, workers, relay and Stop do.
C6_TerminalIsFinal ==
    [][\A x \in OrderIds :
          Terminal(orders[x].status) => orders'[x].status = orders[x].status]_vars

\* an order is terminal while its id is submitted again
C6_Witness ==
    \E x \in OrderIds :
        /\ Terminal(orders[x].status)
        /\ \E h \in Handlers : hreq[h].id = x /\ hpc[h] = "create"

Range(s) == {s[i] : i \in 1..Len(s)}

\* C7: a row becomes processed = true only in the relay's mark of a row whose
\* publish has just returned success, a row is inserted unprocessed, and no
\* row is deleted from the outbox.
C7_ProcessedOnlyAfterPublish ==
    [][/\ Len(outbox') >= Len(outbox)
       /\ \A i \in 1..Len(outbox) :
             /\ outbox'[i].id = outbox[i].id
             /\ outbox'[i].aggregateId = outbox[i].aggregateId
             /\ outbox'[i].eventType = outbox[i].eventType
       /\ \A i \in 1..Len(outbox') :
             (outbox'[i].processed /\ ~(i <= Len(outbox) /\ outbox[i].processed)) =>
                 /\ rpc = "mark"
                 /\ batch[idx] = outbox'[i].id
                 /\ cyclePub # <<>>
                 /\ cyclePub[Len(cyclePub)] = outbox'[i].id]_vars

\* a row is processed while another one, whose publish failed, is not
C7_Witness ==
    \E i, j \in 1..Len(outbox) :
        outbox[i].processed /\ ~outbox[j].processed /\ j \in pubFailed

\* the relay is back at its select after a cycle over a non-empty batch
CycleDone == rpc = "wait" /\ batch # <<>>

\* every publish and every store call of that cycle succeeded
CleanCycle == CycleDone /\ pubFailed = {} /\ markFailed = {}

\* C8 as claimed: a row whose publish failed stays unprocessed, and a relay
\* cycle whose publishes and store calls all succeed publishes and marks
\* every row that was unprocessed when it started.
C8_NextCycleProcessesEveryRow ==
    /\ \A r \in pubFailed : ~outbox[r].processed
    /\ CleanCycle => \A r \in backlog : outbox[r].processed

\* C8, amended: a row whose publish failed stays unprocessed, and a relay
\* cycle whose publishes and store calls all succeed publishes and marks every
\* row that was unprocessed when it started, except rows left out of a full
\* batch (BatchSize rows, none of them newer than a row left out).
C8_NextCycleProcessesBatch ==
    /\ \A r \in pubFailed : ~outbox[r].processed
    /\ CleanCycle =>
          \A r \in backlog :
              \/ outbox[r].processed
              \/ /\ Len(batch) = BatchSize
                 /\ r \notin Range(batch)
                 /\ \A k \in 1..Len(batch) : outbox[batch[k]].createdAt <= outbox[r].createdAt

\* a clean cycle over a full batch has processed its rows and left one waiting
C8_Witness ==
    /\ CleanCycle
    /\ \A k \in 1..Len(batch) : outbox[batch[k]].processed
    /\ \E r \in backlog : ~outbox[r].processed

\* C9: the rows published in one relay cycle are published in ascending
\* createdAt order: never a row after one with a greater createdAt.
C9_PublishedInCreatedAtOrder ==
    \A i, j \in 1..Len(cyclePub) :
        i < j => outbox[cyclePub[i]].createdAt <= outbox[cyclePub[j]].createdAt

\* two rows published in one cycle, the later-stored one first
C9_Witness ==
    /\ Len(cyclePub) = 2
    /\ cyclePub[1] > cyclePub[2]
    /\ outbox[cyclePub[1]].createdAt < outbox[cyclePub[2]].createdAt

\* C10 as claimed: after a cycle in which a publish failed, the rows whose
\* publish failed are unprocessed, every row of the batch was attempted and
\* every row whose publish succeeded is processed.
C10_FailureIsolated ==
    (CycleDone /\ pubFailed # {}) =>
        /\ \A r \in pubFailed : ~outbox[r].processed
        /\ Range(batch) = pubFailed \cup Range(cyclePub)
        /\ \A r \in Range(cyclePub) : outbox[r].processed

\* C10, amended: after a cycle in which a publish failed, the rows whose
\* publish failed are unprocessed, every row of the batch was attempted, and
\* every row whose publish succeeded is processed unless the store call
\* marking it failed, in which case it stays unprocessed.
C10_FailureIsolatedUnlessMarkFails ==
    (CycleDone /\ pubFailed # {}) =>
        /\ \A r \in pubFailed : ~outbox[r].processed
        /\ Range(batch) = pubFailed \cup Range(cyclePub)
        /\ \A r \in Range(cyclePub) \ markFailed : outbox[r].processed
        /\ \A r \in markFailed : ~outbox[r].processed

\* the first row's publish failed and the second row ended processed
C10_Witness ==
    /\ CycleDone
    /\ Len(batch) = 2
    /\ batch[1] \in pubFailed
    /\ outbox[batch[2]].processed

\* The relay takes its next tick and fetches: the start of a cycle
RelayFetches == rpc = "wait" /\ (rpc' = "publish" \/ batch' # batch \/ backlog' # backlog \/ cyclePub' # cyclePub)

\* The cycle that ended had no failed publish or mark and its batch held every waiting row
CycleWasClean ==
    /\ pubFailed = {}
    /\ markFailed = {}
    /\ backlog \subseteq Range(batch)

C12_NoHeadOfLineBlocking ==
    \A r \in RowIds \ StuckRows :
        (Len(outbox) >= r) ~> (Len(outbox) >= r /\ outbox[r].processed)

\* SubmitOrder has returned nil for x: both rows are stored
Accepted(x) == HasOrder(x) /\ SubmittedRows(x) # {}

\* C13: while the orchestrator runs and the store calls succeed, every order
\* the submission path accepted is eventually picked up by a worker and reaches
\* COMPLETED or FAILED.
C13_AcceptedOrderIsExecuted ==
    \A x \in OrderIds : Accepted(x) ~> Terminal(orders[x].status)

\* C14: ExecuteTrade is invoked at most once for each order id.
C14_TradeAtMostOnce == \A x \in OrderIds : trades[x].calls <= 1

\* a trade failed, the order is stored FAILED and no worker holds it any more
C14_Witness ==
    \E x \in OrderIds :
        /\ trades[x].calls = 1 /\ trades[x].result = "err"
        /\ orders[x].status = StatusFailed
        /\ \A w \in Workers : wlocal[w].id # x

\* The places that hold order id x: queue slots, workers, a handler about to send
Outstanding(x) ==
    Cardinality({k \in 1..Len(orderChan) : orderChan[k] = x})
    + Cardinality({w \in Workers : wlocal[w].id = x})
    + Cardinality({h \in Handlers : hpc[h] = "enqueue" /\ hreq[h].id = x})

\* C15: an order id is never outstanding more than once: not twice in the
\* queue, not with two workers, not with a worker and in the queue.
C15_OneHolderPerOrder == \A x \in OrderIds : Outstanding(x) <= 1

\* two workers process two orders while a resubmission of one of them is refused
C15_Witness ==
    /\ \A w \in Workers : wlocal[w].id # ""
    /\ \E h \in Handlers : hpc[h] = "create" /\ \E w \in Workers : wlocal[w].id = hreq[h].id

\* C16: for every order that reaches COMPLETED, an event announcing its
\* completion eventually reaches the bus, also when the worker's immediate
\* publish fails.
C16_CompletionIsAnnounced ==
    \A x \in SystemIds : (orders[x].status = StatusCompleted) ~> (x \in announced)

\* C17: Stop returns only after every worker and the relay have exited; after
\* it has returned none of them makes a store, bus or exchange call; and Stop
\* does return once every call in flight has returned.
C17_StopWaitsForAll ==
    /\ [](stopPc = "returned" => rpc = "exited" /\ \A w \in Workers : wpc[w] = "exited")
    /\ [][stopPc = "returned" =>
            /\ UNCHANGED <<workerVars, relayVars>>
            /\ \A x \in OrderIds : HasOrder(x) => orders'[x] = orders[x]
            /\ \A i \in 1..Len(outbox) : outbox'[i].processed = outbox[i].processed]_vars
    /\ (stopPc = "wait") ~> (stopPc = "returned")

\* Stop has returned after the workers made trades
C17_Witness ==
    /\ stopPc = "returned"
    /\ \E x \in OrderIds : trades[x].calls > 0

\* C18: a unit of work in flight when Stop is called is completed: when the
\* workers have exited no order is left EXECUTING, and when the relay has
\* exited every row it published in its last cycle is marked processed.
C18_UnitOfWorkCompletes ==
    /\ (\A w \in Workers : wpc[w] = "exited") =>
           \A x \in OrderIds : orders[x].status # StatusExecuting
    /\ rpc = "exited" => \A r \in Range(cyclePub) : outbox[r].processed

\* C19: the outcome of an ExecuteTrade call is never an error caused by the
\* orchestrator's cancellation.
C19_TradeNotCancelled == \A x \in OrderIds : trades[x].result # "cancelled"

\* One worker receives the head of the queue
ReceivedByOne ==
    /\ orderChan # <<>>
    /\ orderChan' = Tail(orderChan)
    /\ Cardinality({w \in Workers : wpc[w] = "idle" /\ wpc'[w] = "get"
                                     /\ wlocal'[w].id = Head(orderChan)}) = 1
    /\ \A w \in Workers : wpc'[w] # wpc[w] => (wpc[w] = "idle" /\ wpc'[w] = "get")

\* A handler's send puts its order at the tail of a queue that has room
SentByHandler ==
    /\ Len(orderChan) < QueueCap
    /\ \E h \in Handlers :
          /\ hpc[h] = "enqueue" /\ hpc'[h] = "done"
          /\ orderChan' = Append(orderChan, hreq[h].id)

\* C20: the queue never holds more than its capacity; a send on a full queue
\* blocks the handler until a worker receives; the queue changes only by a send
\* at its tail or by one worker receiving its head, so no order is dropped.
C20_BoundedQueueNeverDrops ==
    /\ [](Len(orderChan) <= QueueCap)
    /\ [][/\ orderChan' # orderChan => (SentByHandler \/ ReceivedByOne)
          /\ \A h \in Handlers :
                (hpc[h] = "enqueue" /\ Len(orderChan) = QueueCap) =>
                    (hpc'[h] = "enqueue" /\ hreq'[h] = hreq[h])
          /\ \A h \in Handlers :
                (hpc[h] = "enqueue" /\ hpc'[h] # "enqueue") =>
                    orderChan' = Append(orderChan, hreq[h].id)]_vars

\* the queue is full, a handler is blocked in its send and a worker is busy
C20_Witness ==
    /\ Len(orderChan) = QueueCap
    /\ \E h \in Handlers : hpc[h] = "enqueue"
    /\ \E w \in Workers : wlocal[w].id # ""

\* C21: an order is put on the queue exactly once for every successful
\* SubmitOrder and only after the store writes: the 202 that follows a
\* successful SubmitOrder comes with the send of that order, a failed
\* submission changes no queue, and every id on the queue has its Order row.
C21_EnqueuedOncePerSubmit ==
    /\ [](\A k \in 1..Len(orderChan) : Accepted(orderChan[k]))
    /\ [][\A h \in Handlers :
            /\ (hresp'[h] = 202 /\ hresp[h] # 202) =>
                   (hreq[h].id # "" /\ orderChan' = Append(orderChan, hreq[h].id))
            /\ (hresp'[h] \in {400, 500} /\ hresp[h] = 0) => orderChan' = orderChan]_vars

\* C22: when ProcessOrder has read an order whose status does not allow the
\* transition to EXECUTING (EXECUTING, COMPLETED or FAILED), it returns an
\* error naming the current status and the attempted status EXECUTING, and
\* that step writes nothing to the store and calls neither exchange nor bus.
C22_NoTransitionAborts ==
    [][\A w \in Workers :
          (/\ ProcessGetOrderOk(w)
           /\ orders[wlocal[w].id].status \in {StatusExecuting, StatusCompleted, StatusFailed}) =>
              /\ wpc'[w] = "returned"
              /\ wret'[w] = Err("order cannot transition",
                                orders[wlocal[w].id].status, StatusExecuting)
              /\ orders' = orders
              /\ outbox' = outbox
              /\ trades' = trades
              /\ announced' = announced]_vars

\* ProcessOrder was given each kind of order it must refuse: one returned the
\* error for a COMPLETED order while another returned it for an EXECUTING one
C22_Witness ==
    \E w, v \in Workers :
        /\ wpc[w] = "returned" /\ wpc[v] = "returned"
        /\ wret[w] = Err("order cannot transition", StatusCompleted, StatusExecuting)
        /\ wret[v] = Err("order cannot transition", StatusExecuting, StatusExecuting)

\* C23: an order whose execution hit a storage error is processed again later:
\* with a store that recovers, every order a worker has taken from the queue
\* reaches COMPLETED or FAILED, none stays PENDING or EXECUTING forever.
C23_StorageErrorIsRetried ==
    \A x \in SystemIds :
        (\E w \in Workers : wlocal[w].id = x) ~> Terminal(orders[x].status)

\* C24: no failed call ends a background goroutine. Until Stop is called no
\* worker and no relay has exited; a worker to which ProcessOrder has returned,
\* whatever the error, goes back to its select; and the relay after a failed
\* publish or mark goes on to the next row of the batch, or to the next tick
\* after the last row (a failed fetch leaves it waiting for the next tick).
C24_ErrorsStopNoProcess ==
    /\ [](stopPc = "run" => rpc # "exited" /\ \A w \in Workers : wpc[w] # "exited")
    /\ [][\A w \in Workers :
            (wpc[w] = "returned" /\ wpc'[w] # "returned") => wpc'[w] = "idle"]_vars
    /\ [][(pubFailed' \ pubFailed # {} \/ markFailed' \ markFailed # {}) =>
            IF idx < Len(batch)
            THEN rpc' = "publish" /\ idx' = idx + 1 /\ batch' = batch
            ELSE rpc' = "wait"]_vars

\* Before Stop: ProcessOrder has returned an error to a worker after a failed
\* trade and a failed store write, and the relay is back at its ticker after a
\* cycle in which a publish failed and a mark failed
C24_Witness ==
    /\ stopPc = "run"
    /\ \E w \in Workers :
           wpc[w] = "returned" /\ wret[w] = Err("trade failed and update failed", "", "")
    /\ rpc = "wait"
    /\ pubFailed # {}
    /\ markFailed # {}

\* C25: a step of the relay leaves every Order row as it is and adds or
\* removes no OutboxEvent row; the only row it changes is the one it has just
\* published, and the change is processed = true with processedAt set.
C25_RelayWritesOnlyItsMark ==
    [][relayVars' # relayVars =>
          /\ orders' = orders
          /\ Len(outbox') = Len(outbox)
          /\ \A i \in 1..Len(outbox) :
                 outbox'[i] # outbox[i] =>
                     /\ rpc = "mark"
                     /\ outbox[i].id = batch[idx]
                     /\ cyclePub # <<>> /\ cyclePub[Len(cyclePub)] = batch[idx]
                     /\ outbox'[i] = [outbox[i] EXCEPT !.processed = TRUE,
                                                       !.processedAt = 1]]_vars

\* The relay has marked the row it published last while the order of that row
\* and another, unprocessed row are in the store
C25_Witness ==
    /\ cyclePub # <<>>
    /\ \E i, j \in 1..Len(outbox) :
           /\ outbox[i].id = cyclePub[Len(cyclePub)]
           /\ outbox[i].processed /\ outbox[i].processedAt = 1
           /\ HasOrder(outbox[i].aggregateId)
           /\ ~outbox[j].processed /\ outbox[j].processedAt = 0

\* C26: the store holds one Order row per id and never loses one: a stored
\* row stays stored under its id. A SubmitOrder whose id is already stored
\* fails (the handler answers 500) and that step changes no Order row, the
\* status of the stored row included, and adds no OutboxEvent row.
C26_DuplicateIdRejected ==
    /\ [](\A x \in OrderIds : HasOrder(x) => orders[x].id = x)
    /\ [][\A x \in OrderIds : HasOrder(x) => orders'[x] # NoRow]_vars
    /\ [][\A h \in Handlers :
            (/\ hpc[h] = "create"
             /\ HasOrder(hreq[h].id)
             /\ hpc'[h] # "create") =>
                /\ hpc'[h] = "done"
                /\ hresp'[h] = 500
                /\ orders' = orders
                /\ outbox' = outbox]_vars

\* Every id is stored, one order is past PENDING, and the handler has answered
\* 500 to a request that wrote nothing: the request named a stored id
C26_Witness ==
    /\ \A x \in OrderIds : HasOrder(x)
    /\ \E x \in OrderIds : orders[x].status \in {StatusExecuting, StatusCompleted}
    /\ \E h \in Handlers : hpc[h] = "done" /\ hresp[h] = 500 /\ hadded[h] = 0

\* C27: when the worker's publish after a successful trade fails (the bus does
\* not get the event), ProcessOrder returns nil, the stored order is COMPLETED
\* and is not written by that step, and the worker goes back to its select.
C27_PublishFailureSwallowed ==
    /\ [][\A w \in Workers :
            (wpc[w] = "publish" /\ wpc'[w] # "publish" /\ announced' = announced) =>
                /\ wpc'[w] = "returned"
                /\ wret'[w] = Nil
                /\ orders[wlocal[w].id].status = StatusCompleted
                /\ orders' = orders]_vars
    /\ [][\A w \in Workers :
            (wpc[w] = "returned" /\ wret[w] = Nil /\ wpc'[w] # "returned") =>
                wpc'[w] = "idle"]_vars

\* ProcessOrder has returned nil to a worker although no completion event has
\* reached the bus: its publish failed, and the order is COMPLETED
C27_Witness ==
    /\ announced = {}
    /\ \E x \in OrderIds : orders[x].status = StatusCompleted
    /\ \E w \in Workers : wpc[w] = "returned" /\ wret[w] = Nil

\* C28: ExecuteTrade is called for an order only while its stored status is
\* EXECUTING, which the worker has written before; when the write of EXECUTING
\* fails, ProcessOrder returns the update error without a call to the exchange
\* and the stored status is still PENDING.
C28_TradeOnlyAfterExecutingStored ==
    /\ [][\A x \in OrderIds :
            trades'[x] # trades[x] => orders[x].status = StatusExecuting]_vars
    /\ [][\A w \in Workers :
            (wpc[w] = "setExecuting" /\ wpc'[w] = "trade") =>
                orders'[wlocal[w].id].status = StatusExecuting]_vars
    /\ [][\A w \in Workers :
            (wpc[w] = "setExecuting" /\ wpc'[w] \notin {"setExecuting", "trade"}) =>
                /\ wpc'[w] = "returned"
                /\ wret'[w] = Err("failed to update order status", "", "")
                /\ trades' = trades
                /\ orders' = orders
                /\ orders[wlocal[w].id].status = StatusPending]_vars

\* ProcessOrder has returned the update error while no order is EXECUTING (the
\* write that failed was the one of EXECUTING), after a trade for another order
C28_Witness ==
    /\ \E w \in Workers :
           wpc[w] = "returned" /\ wret[w] = Err("failed to update order status", "", "")
    /\ \A x \in OrderIds : orders[x].status # StatusExecuting
    /\ \E x \in OrderIds : orders[x].status = StatusPending /\ trades[x].calls = 0
    /\ \E y \in OrderIds : trades[y].calls > 0

\* C29 as claimed: a row that was published and whose mark failed stays
\* unprocessed, and the next relay cycle fetches it again (and so publishes it
\* again): it is delivered at least once, never zero times.
C29_RepublishedNextCycle ==
    /\ [](\A r \in markFailed : r \in Range(cyclePub) /\ ~outbox[r].processed)
    /\ [][RelayFetches => \A r \in markFailed : r \in Range(batch')]_vars

\* C29, amended: a row that was published and whose mark failed stays
\* unprocessed, and the next relay cycle fetches it again unless its batch is
\* full (BatchSize rows) of rows none of which is newer than that row.
C29_RepublishedWhenInBatch ==
    /\ [](\A r \in markFailed : r \in Range(cyclePub) /\ ~outbox[r].processed)
    /\ [][RelayFetches =>
            \A r \in markFailed :
                \/ r \in Range(batch')
                \/ /\ Len(batch') = BatchSize
                   /\ \A k \in 1..Len(batch') :
                          outbox[batch'[k]].createdAt <= outbox[r].createdAt]_vars

\* A cycle has ended in which a row was published and its mark failed (the row
\* is unprocessed) while the mark of another published row succeeded
C29_Witness ==
    /\ CycleDone
    /\ \E r \in markFailed : r \in Range(cyclePub) /\ ~outbox[r].processed
    /\ \E q \in Range(cyclePub) : outbox[q].processed

\* The orders between a worker's receive and the return of its ProcessOrder
MidExecution == {x \in OrderIds : \E w \in Workers : wlocal[w].id = x}

\* The workers whose ExecuteTrade call is in flight
TradesInFlight == {w \in Workers : wpc[w] = "trade"}

\* C30: with NumWorkers workers at most NumWorkers orders are between a
\* worker's receive and the return of its ProcessOrder, and at most NumWorkers
\* ExecuteTrade calls are in flight; a worker takes an order from the queue
\* only while it holds none, and the exchange is called for an order only by
\* the worker that holds it.
C30_AtMostNInExecution ==
    /\ [](/\ Cardinality(MidExecution) <= NumWorkers
          /\ Cardinality(TradesInFlight) <= NumWorkers
          /\ \A w \in Workers : wpc[w] \in {"idle", "returned", "exited"} <=> wlocal[w].id = "")
    /\ [][\A w \in Workers :
            (wlocal'[w].id # wlocal[w].id /\ wlocal'[w].id # "") =>
                /\ wpc[w] = "idle" /\ wlocal[w].id = ""
                /\ orderChan # <<>> /\ wlocal'[w].id = Head(orderChan)
                /\ orderChan' = Tail(orderChan)]_vars
    /\ [][\A x \in OrderIds :
            trades'[x] # trades[x] =>
                Cardinality({w \in TradesInFlight : wlocal[w].id = x /\ wpc'[w] # "trade"}) = 1]_vars

\* Every worker has an ExecuteTrade call in flight, each for another order,
\* while a further order waits in the queue
C30_Witness ==
    /\ TradesInFlight = Workers
    /\ Cardinality(MidExecution) = NumWorkers
    /\ orderChan # <<>>

\* C31: every store write that changes the status of a stored order takes it
\* along an allowed edge: CanTransitionTo holds for the status stored at the
\* moment of the write and the status written, whatever the workers interleave.
C31_StatusWritesFollowEdges ==
    [][\A x \in OrderIds :
          (HasOrder(x) /\ orders'[x].status # orders[x].status) =>
              CanTransitionTo(orders[x], orders'[x].status)]_vars

\* Both workers are past their write of EXECUTING, each on its own order,
\* after a third order was written FAILED following a failed trade
C31_Witness ==
    /\ \A w \in Workers :
           wlocal[w].id # "" /\ wpc[w] \in {"trade", "setCompleted", "setFailed"}
                            /\ orders[wlocal[w].id].status = StatusExecuting
    /\ \E x \in OrderIds : orders[x].status = StatusFailed /\ trades[x].result = "err"

\* C32: an order is stored COMPLETED only after an ExecuteTrade call for it
\* returned nil, and FAILED only after an ExecuteTrade call for it returned an
\* error; an order for which ExecuteTrade was never called is not terminal.
C32_TerminalOnlyAfterTrade ==
    \A x \in OrderIds :
        /\ orders[x].status = StatusCompleted =>
               trades[x].calls >= 1 /\ trades[x].result = "ok"
        /\ orders[x].status = StatusFailed =>
               trades[x].calls >= 1 /\ trades[x].result \in {"err", "cancelled"}
        /\ trades[x].calls = 0 => ~Terminal(orders[x].status)

\* One order is COMPLETED after its trade, one FAILED after its trade failed,
\* and one is stored for which the exchange has not been called
C32_Witness ==
    \E x, y, z \in OrderIds :
        /\ orders[x].status = StatusCompleted /\ trades[x].result = "ok"
        /\ orders[y].status = StatusFailed /\ trades[y].result = "err"
        /\ HasOrder(z) /\ trades[z].calls = 0

\* C33: a step of a worker's ProcessOrder changes no OutboxEvent row and no
\* Order row other than the one it processes, and of that row only the
\* status: its id, symbol and quantity stay as stored.
C33_ProcessOrderWritesOnlyStatus ==
    [][\A w \in Workers :
          wpc'[w] # wpc[w] =>
              /\ outbox' = outbox
              /\ \A x \in OrderIds :
                     orders'[x] # orders[x] =>
                         /\ x = wlocal[w].id
                         /\ HasOrder(x)
                         /\ orders'[x] = [orders[x] EXCEPT !.status = orders'[x].status]]_vars

\* A worker has taken an order to COMPLETED with the fields it was submitted
\* with, while another stored order is PENDING and outbox rows are waiting
C33_Witness ==
    /\ \E x, y \in OrderIds :
           /\ orders[x] = [NewOrder(x, "BTCUSDT", 1) EXCEPT !.status = StatusCompleted]
           /\ orders[y] = NewOrder(y, "BTCUSDT", 1)
    /\ Len(outbox) >= 2
    /\ \A i \in 1..Len(outbox) : ~outbox[i].processed

\* C34: a row that is processed stays processed; processedAt is set exactly on
\* the processed rows; and the relay publishes only rows of its batch, all of
\* which were unprocessed when the cycle fetched them and still are when it
\* publishes them.
C34_ProcessedIsMonotonic ==
    /\ [](\A i \in 1..Len(outbox) : outbox[i].processed <=> outbox[i].processedAt # 0)
    /\ [][\A i \in 1..Len(outbox) : outbox[i].processed => outbox'[i].processed]_vars
    /\ [](/\ Range(batch) \subseteq backlog
          /\ Range(cyclePub) \cup pubFailed \subseteq Range(batch))
    /\ [][cyclePub' # cyclePub /\ cyclePub' # <<>> =>
            /\ cyclePub' = Append(cyclePub, batch[idx])
            /\ ~outbox[batch[idx]].processed]_vars

\* A cycle that fetched after a row had been processed has published a row:
\* the processed row is not part of what it fetched
C34_Witness ==
    /\ cyclePub # <<>>
    /\ \E p \in 1..Len(outbox) :
           /\ outbox[p].processed /\ outbox[p].processedAt # 0
           /\ p \notin backlog
           /\ p \notin Range(batch)

\* Order x is stored PENDING, the exchange has not been called for it and no
\* worker has got further with it than reading it
Waiting(x) ==
    /\ orders[x].status = StatusPending
    /\ trades[x].calls = 0
    /\ \A w \in Workers : wlocal[w].id = x => wpc[w] = "get"

\* C35: an order that is in the queue when Stop is called is not executed by
\* the stopped pool. Every order in the queue is waiting (stored PENDING, no
\* ExecuteTrade call), and once to.ctx is cancelled a waiting order stays
\* waiting, also when a worker still receives it; so when every worker has
\* exited, it is PENDING and the exchange was never called for it.
C35_QueuedOrdersNotExecutedAfterStop ==
    /\ [](\A k \in 1..Len(orderChan) : Waiting(orderChan[k]))
    /\ [][cancelled =>
            \A x \in OrderIds :
                Waiting(x) =>
                    /\ orders'[x].status = StatusPending
                    /\ trades'[x].calls = 0
                    /\ \A w \in Workers : wlocal'[w].id = x => wpc'[w] = "get"]_vars
    /\ []((\A w \in Workers : wpc[w] = "exited") =>
              \A k \in 1..Len(orderChan) :
                  /\ orders[orderChan[k]].status = StatusPending
                  /\ trades[orderChan[k]].calls = 0)

\* Stop has returned, every worker has exited, one order was executed before
\* and one is left in the queue, PENDING
C35_Witness ==
    /\ stopPc = "returned"
    /\ \A w \in Workers : wpc[w] = "exited"
    /\ orderChan # <<>>
    /\ orders[Head(orderChan)].status = StatusPending
    /\ \E y \in OrderIds : Terminal(orders[y].status)

\* C36: the consumer commits a fetched message only after the handler has
\* returned nil for it; an iteration whose message cannot be decoded or whose
\* handler returns an error ends without a commit and its message is never
\* committed; the loop exits only once kp.ctx is cancelled, and Close closes
\* the producer and the reader only after the loop has exited.
C36_CommitOnlyAfterHandlerSuccess ==
    /\ [](/\ committed \subseteq handled
          /\ (cpc = "decode" /\ cmsg.payload = "garbage") => cmsg.offset \notin handled
          /\ cpc = "exited" => kcancelled
          /\ (producerClosed \/ readerClosed \/ kclose \in {"producer", "reader", "returned"})
                => cpc = "exited")
    /\ [][/\ committed' # committed =>
                /\ cpc = "commit"
                /\ cmsg.offset \in handled
                /\ committed' = committed \cup {cmsg.offset}
          /\ (cpc = "decode" /\ cmsg.payload = "garbage") =>
                /\ cpc' \in {"decode", "select"}
                /\ committed' = committed /\ handled' = handled
          /\ (cpc = "handle" /\ cmsg.offset \notin handled') =>
                /\ cpc' \in {"handle", "select"}
                /\ committed' = committed
          /\ (cpc' = "exited" /\ cpc # "exited") => kcancelled]_vars

\* Close has closed producer and reader after a run in which one message was
\* committed and another one, decoded or handled without success, was not.
C36_Witness ==
    /\ kclose = "returned"
    /\ producerClosed /\ readerClosed
    /\ cpc = "exited"
    /\ committed # {}
    /\ \E o \in 1..(nextOffset - 1) : o \notin handled /\ o \notin committed

\* C37: the port field DSN writes, read as a decimal number, is the
\* configured port, for every port 0..65535.
C37_DsnPortIsConfiguredPort ==
    cfgPc = "opened" => Atoi(dsn) = port

====
